---------------------------- MODULE Spec2Model ----------------------------
(***************************************************************************)
(* Session / reset-token lifecycle of the Vysus training platform           *)
(* (app/auth/router.py, app/auth/dependencies.py, app/schemas.py).          *)
(*                                                                          *)
(* The relational store (users, sessions, password_reset_tokens) is the     *)
(* only shared state.  Every request handler runs in its own SQLAlchemy     *)
(* session, that is, in its own PostgreSQL transaction (READ COMMITTED):    *)
(* a SELECT reads the committed rows, an UPDATE/DELETE takes row locks that *)
(* are held until db.commit(), and the handler's writes become visible to   *)
(* other requests only at db.commit().  A handler is therefore split at its *)
(* database round trips, and handlers of different workers interleave at    *)
(* those points.                                                            *)
(*                                                                          *)
(* Strings (emails, passwords) are sequences of one-character strings so    *)
(* that lower(), endswith() and the password rules are computed as the      *)
(* code computes them.  Time is counted in hours.                           *)
(***************************************************************************)
EXTENDS Naturals, Sequences, FiniteSets, TLC

-----------------------------------------------------------------------------
(* Bounds of the model *)

\* session tokens minted over a run
MaxSessions == 2
\* password_reset_tokens rows created over a run
MaxResetTokens == 2
\* clock advances over a run
MaxTicks == 1

\* the workers that serve requests concurrently
Procs == {"w1", "w2"}

-----------------------------------------------------------------------------
(* Configuration (app/config.py) *)

session_expire_days == 7
password_reset_expire_hours == 1

-----------------------------------------------------------------------------
(* Characters and strings *)

UpperAlpha == <<"A","B","C","D","E","F","G","H","I","J","K","L","M",
                "N","O","P","Q","R","S","T","U","V","W","X","Y","Z">>
LowerAlpha == <<"a","b","c","d","e","f","g","h","i","j","k","l","m",
                "n","o","p","q","r","s","t","u","v","w","x","y","z">>
Digits == {"0","1","2","3","4","5","6","7","8","9"}

UpperSet == {UpperAlpha[i] : i \in 1..Len(UpperAlpha)}
LowerSet == {LowerAlpha[i] : i \in 1..Len(LowerAlpha)}

isupper(c) == c \in UpperSet
islower(c) == c \in LowerSet
isdigit(c) == c \in Digits

\* str.lower() on one character
LowerChar(c) ==
    IF isupper(c)
    THEN LowerAlpha[CHOOSE i \in 1..Len(UpperAlpha) : UpperAlpha[i] = c]
    ELSE c

\* str.lower(), character by character
str_lower(s) == [i \in 1..Len(s) |-> LowerChar(s[i])]

\* str.endswith(suffix)
endswith(s, suffix) ==
    /\ Len(s) >= Len(suffix)
    /\ SubSeq(s, Len(s) - Len(suffix) + 1, Len(s)) = suffix

\* "@vysusgroup.com"
VysusSuffix == <<"@","v","y","s","u","s","g","r","o","u","p",".","c","o","m">>

-----------------------------------------------------------------------------
(* Request inputs *)

AliceEmail == <<"a","l">> \o VysusSuffix
\* the same address typed with capitals, domain included
AliceMixed == <<"A","l","@","V","y","s","u","s","G","r","o","u","p",".","c","o","m">>
BobEmail   == <<"b","o","b">> \o VysusSuffix
\* "al@gmail.com": not the approved domain
GmailEmail == <<"a","l","@","g","m","a","i","l",".","c","o","m">>
\* "al@notvysusgroup.com": ends in "vysusgroup.com" but not in "@vysusgroup.com"
NearEmail  == <<"a","l","@","n","o","t">> \o Tail(VysusSuffix)

Emails == {AliceEmail, AliceMixed, BobEmail, GmailEmail, NearEmail}

\* str.lower() of the request emails and of their lowercase forms, computed
\* once
LowerTable == [e \in Emails \cup {str_lower(x) : x \in Emails} |-> str_lower(e)]

\* str.lower()
lower(s) == IF s \in DOMAIN LowerTable THEN LowerTable[s] ELSE str_lower(s)

\* "GoodPass123"
GoodPass == <<"G","o","o","d","P","a","s","s","1","2","3">>
\* "NewPass4567"
NewPass  == <<"N","e","w","P","a","s","s","4","5","6","7">>
\* "Short1a": 7 characters
ShortPass == <<"S","h","o","r","t","1","a">>

\* "goodpass123": no uppercase letter
NoUpperPass == <<"g","o","o","d","p","a","s","s","1","2","3">>
\* "GOODPASS123": no lowercase letter
NoLowerPass == <<"G","O","O","D","P","A","S","S","1","2","3">>
\* "GoodPassword": no digit
NoDigitPass == <<"G","o","o","d","P","a","s","s","w","o","r","d">>

Passwords == {GoodPass, NewPass, ShortPass}

\* one password for each rule of the policy, and two that satisfy it
PolicyPasswords == Passwords \cup {NoUpperPass, NoLowerPass, NoDigitPass}

\* the well-formed requests of one user
RaceEmails == {AliceEmail}
RacePasswords == {GoodPass, NewPass}

ResetTokenInputs == 0..MaxResetTokens
\* 0 stands for the empty string (no cookie); the others are token values
SessionTokenInputs == 0..MaxSessions
\* the cookie values presented to session resolution: those, and the cookie of
\* the deactivated account
CookieInputs == 0..(MaxSessions + 1)

\* request paths: "/login" and "/api/auth/me" begin with a public prefix,
\* "/" and "/log" do not
LoginPath == <<"/","l","o","g","i","n">>
MePath == <<"/","a","p","i","/","a","u","t","h","/","m","e">>
RootPath == <<"/">>
LogPath == <<"/","l","o","g">>

Paths == {LoginPath, MePath, RootPath, LogPath}

\* paths that no exact route matches, so that GET reaches the catch-all
LoginHtml == <<"/","l","o","g","i","n",".","h","t","m","l">>
FaviconPath == <<"/","f","a","v","i","c","o","n",".","i","c","o">>
LoginNotes == <<"/","l","o","g","i","n","-","n","o","t","e","s",".","t","x","t">>
PlanHtml == <<"/","t","r","a","i","n","i","n","g","-","p","l","a","n",".","h","t","m","l">>
TraversalPath == <<"/","l","o","g","i","n","/",".",".","/","x">>

StaticPaths == {LoginHtml, FaviconPath, LoginNotes, PlanHtml, TraversalPath}

-----------------------------------------------------------------------------
(* app/schemas.py: field validators *)

MinPasswordLength == 10

\* a validator that forgets the "@" of the suffix
validate_vysus_email_no_at(v) ==
    IF ~endswith(lower(v), Tail(VysusSuffix))
    THEN {"Only @vysusgroup.com emails are allowed"}
    ELSE {}

\* UserCreate.validate_vysus_email: the error it raises, if any
validate_vysus_email(v) ==
    IF ~endswith(lower(v), VysusSuffix)
    THEN {"Only @vysusgroup.com emails are allowed"}
    ELSE {}

\* UserCreate.validate_password (schemas.py 20-31): the first rule that fails
\* raises
validate_password(v) ==
    IF Len(v) < MinPasswordLength
    THEN {"Password must be at least 10 characters"}
    ELSE IF ~\E i \in 1..Len(v) : isupper(v[i])
    THEN {"Password must contain at least one uppercase letter"}
    ELSE IF ~\E i \in 1..Len(v) : islower(v[i])
    THEN {"Password must contain at least one lowercase letter"}
    ELSE IF ~\E i \in 1..Len(v) : isdigit(v[i])
    THEN {"Password must contain at least one number"}
    ELSE {}

\* a reset validator without the digit rule
ResetPasswordRequest_validate_password_no_digit(v) ==
    IF Len(v) < MinPasswordLength
    THEN {"Password must be at least 10 characters"}
    ELSE IF ~\E i \in 1..Len(v) : isupper(v[i])
    THEN {"Password must contain at least one uppercase letter"}
    ELSE IF ~\E i \in 1..Len(v) : islower(v[i])
    THEN {"Password must contain at least one lowercase letter"}
    ELSE {}

\* ResetPasswordRequest.validate_password (schemas.py 59-70), written out a
\* second time in the source
ResetPasswordRequest_validate_password(v) ==
    IF Len(v) < 10
    THEN {"Password must be at least 10 characters"}
    ELSE IF ~\E i \in 1..Len(v) : isupper(v[i])
    THEN {"Password must contain at least one uppercase letter"}
    ELSE IF ~\E i \in 1..Len(v) : islower(v[i])
    THEN {"Password must contain at least one lowercase letter"}
    ELSE IF ~\E i \in 1..Len(v) : isdigit(v[i])
    THEN {"Password must contain at least one number"}
    ELSE {}

-----------------------------------------------------------------------------
(* app/auth/utils.py *)

\* bcrypt digest of a password: one-way, and distinct from the plaintext
hash_password(password) == <<"$2b$", password>>

verify_password(plain_password, hashed_password) ==
    hashed_password = hash_password(plain_password)

\* datetime.utcnow() + timedelta(days=settings.session_expire_days), in hours
get_session_expiry(t) == t + session_expire_days * 24

\* datetime.utcnow() + timedelta(hours=settings.password_reset_expire_hours)
get_password_reset_expiry(t) == t + password_reset_expire_hours

-----------------------------------------------------------------------------
(* State *)

VARIABLES
    users,          \* committed rows of table users
    sessions,       \* committed rows of table sessions
    reset_tokens,   \* committed rows of table password_reset_tokens
    now,            \* datetime.utcnow(), in hours
    ticks,          \* clock advances so far
    sessMinted,     \* session tokens generated so far
    resetMinted,    \* reset tokens generated so far
    proc,           \* per worker: the request in flight and its open transaction
    last            \* the response sent most recently

store == <<users, sessions, reset_tokens>>
vars == <<users, sessions, reset_tokens, now, ticks, sessMinted, resetMinted, proc, last>>

\* a worker with no request in flight
Idle ==
    [pc |-> "idle", email |-> <<>>, password |-> <<>>, user_id |-> 0, token |-> 0,
     expires_at |-> 0, rows |-> {}, before |-> {}]

\* a response: status code, message or detail, validation errors, the
\* account returned, cookie instructions, and, beside what the client sees,
\* what became of the email send and whether an exception was caught on the way
Response(op, status, body) ==
    [op |-> op, status |-> status, body |-> body, errors |-> {}, user |-> 0,
     set_cookie |-> 0, delete_cookie |-> FALSE, mail |-> "none", raised |-> FALSE]

\* FastAPI's reply to an exception no handler catches
InternalError(op) == Response(op, 500, "Internal Server Error")

\* FastAPI's reply to a request body that fails its schema
ValidationError(op, errors) ==
    [Response(op, 422, "Unprocessable Entity") EXCEPT !.errors = errors]

\* the account that exists before any request: deactivated by an administrator
SeedUsers ==
    {[id |-> 1, email |-> BobEmail, hashed_password |-> hash_password(GoodPass),
      is_active |-> FALSE]}

\* the cookie value of the session that account opened before it was
\* deactivated; the values minted later are 1 .. MaxSessions
SeedToken == MaxSessions + 1

\* its session row, not yet expired
SeedSessions ==
    {[user_id |-> 1, session_token |-> SeedToken, expires_at |-> get_session_expiry(0)]}

Init ==
    /\ users = SeedUsers
    /\ sessions = SeedSessions
    /\ reset_tokens = {}
    /\ now = 0
    /\ ticks = 0
    /\ sessMinted = 0
    /\ resetMinted = 0
    /\ proc = [p \in Procs |-> Idle]
    /\ last = Response("none", 0, "")

-----------------------------------------------------------------------------
(* Queries on the committed rows *)

\* db.query(User).filter(User.email == email)
UsersByEmail(email) == {u \in users : u.email = email}

\* db.query(User).filter(User.id == id)
UsersById(id) == {u \in users : u.id = id}

\* rows another worker's open transaction has written and not yet committed
LockedTokens(p) ==
    UNION {IF proc[q].pc = "forgot_commit" THEN proc[q].rows
           ELSE IF proc[q].pc = "reset_commit" THEN {proc[q].token}
           ELSE {} : q \in Procs \ {p}}

LockedUsers(p) ==
    {proc[q].user_id : q \in {r \in Procs \ {p} : proc[r].pc = "reset_commit"}}

LockedSessions(p) ==
    UNION {IF proc[q].pc = "reset_commit" THEN proc[q].rows ELSE {} : q \in Procs \ {p}}

-----------------------------------------------------------------------------
(* register (router.py 34-60) *)

\* a register that leaves the duplicate to the unique constraint
\* (router.py 43-48 left out)
RegisterCallNoLookup(p, email, password) ==
    /\ proc[p].pc = "idle"
    /\ LET errors == validate_vysus_email(email) \cup validate_password(password)
           address == lower(lower(email))
       IN  IF errors # {}
           THEN /\ last' = ValidationError("register", errors)
                /\ UNCHANGED proc
           ELSE /\ proc' = [proc EXCEPT ![p] =
                              [Idle EXCEPT !.pc = "register_commit", !.email = address,
                                           !.password = password]]
                /\ UNCHANGED last
    /\ UNCHANGED <<users, sessions, reset_tokens, now, ticks, sessMinted, resetMinted>>

\* the request arrives: schema validation, then the existence check
RegisterCall(p, email, password) ==
    /\ proc[p].pc = "idle"
    /\ LET errors == validate_vysus_email(email) \cup validate_password(password)
           \* the validator returns v.lower(); the handler lowers it again
           address == lower(lower(email))
       IN  IF errors # {}
           THEN /\ last' = ValidationError("register", errors)
                /\ UNCHANGED proc
           ELSE IF UsersByEmail(address) # {}
           THEN /\ last' = Response("register", 400, "An account with this email already exists")
                /\ UNCHANGED proc
           ELSE /\ proc' = [proc EXCEPT ![p] =
                              [Idle EXCEPT !.pc = "register_commit", !.email = address,
                                           !.password = password]]
                /\ UNCHANGED last
    /\ UNCHANGED <<users, sessions, reset_tokens, now, ticks, sessMinted, resetMinted>>

\* db.add(new_user); db.commit(): the INSERT meets the unique constraint on
\* users.email and the check constraint email LIKE '%@vysusgroup.com'
RegisterCommit(p) ==
    /\ proc[p].pc = "register_commit"
    /\ IF UsersByEmail(proc[p].email) # {} \/ ~endswith(proc[p].email, VysusSuffix)
       THEN /\ last' = InternalError("register")
            /\ UNCHANGED users
       ELSE /\ users' = users \cup
                   {[id |-> Cardinality(users) + 1, email |-> proc[p].email,
                     hashed_password |-> hash_password(proc[p].password),
                     is_active |-> TRUE]}
            /\ last' = Response("register", 200, "Registration successful. You can now log in.")
    /\ proc' = [proc EXCEPT ![p] = Idle]
    /\ UNCHANGED <<sessions, reset_tokens, now, ticks, sessMinted, resetMinted>>

-----------------------------------------------------------------------------
(* login (router.py 63-110) *)

\* a login that answers an unknown email differently from a wrong password
LoginCallTellsUnknown(p, email, password) ==
    /\ proc[p].pc = "idle"
    /\ LET found == UsersByEmail(lower(email))
       IN  IF found = {}
           THEN /\ last' = Response("login", 404, "No account with this email")
                /\ UNCHANGED <<proc, sessMinted>>
           ELSE IF \A u \in found : ~verify_password(password, u.hashed_password)
           THEN /\ last' = Response("login", 401, "Invalid email or password")
                /\ UNCHANGED <<proc, sessMinted>>
           ELSE LET user == CHOOSE u \in found : TRUE
                IN  IF ~user.is_active
                    THEN /\ last' = Response("login", 403, "Account is deactivated")
                         /\ UNCHANGED <<proc, sessMinted>>
                    ELSE /\ sessMinted < MaxSessions
                         /\ sessMinted' = sessMinted + 1
                         /\ proc' = [proc EXCEPT ![p] =
                                       [Idle EXCEPT !.pc = "login_commit", !.user_id = user.id,
                                         !.password = password,
                                                    !.token = sessMinted + 1,
                                                    !.expires_at = get_session_expiry(now)]]
                         /\ UNCHANGED last
    /\ UNCHANGED <<users, sessions, reset_tokens, now, ticks, resetMinted>>

\* a login that does not look at is_active (router.py 81-85 left out)
LoginCallIgnoresActive(p, email, password) ==
    /\ proc[p].pc = "idle"
    /\ LET found == UsersByEmail(lower(email))
       IN  IF found = {} \/ (\A u \in found : ~verify_password(password, u.hashed_password))
           THEN /\ last' = Response("login", 401, "Invalid email or password")
                /\ UNCHANGED <<proc, sessMinted>>
           ELSE LET user == CHOOSE u \in found : TRUE
                IN  /\ sessMinted < MaxSessions
                    /\ sessMinted' = sessMinted + 1
                    /\ proc' = [proc EXCEPT ![p] =
                                  [Idle EXCEPT !.pc = "login_commit", !.user_id = user.id,
                                         !.password = password,
                                               !.token = sessMinted + 1,
                                               !.expires_at = get_session_expiry(now)]]
                    /\ UNCHANGED last
    /\ UNCHANGED <<users, sessions, reset_tokens, now, ticks, resetMinted>>

\* the request arrives: the account lookup, the credential check, and the
\* new session row built with a fresh token
LoginCall(p, email, password) ==
    /\ proc[p].pc = "idle"
    /\ LET found == UsersByEmail(lower(email))
       IN  IF found = {} \/ (\A u \in found : ~verify_password(password, u.hashed_password))
           THEN /\ last' = Response("login", 401, "Invalid email or password")
                /\ UNCHANGED <<proc, sessMinted>>
           ELSE LET user == CHOOSE u \in found : TRUE
                IN  IF ~user.is_active
                    THEN /\ last' = Response("login", 403, "Account is deactivated")
                         /\ UNCHANGED <<proc, sessMinted>>
                    ELSE /\ sessMinted < MaxSessions
                         /\ sessMinted' = sessMinted + 1
                         /\ proc' = [proc EXCEPT ![p] =
                                       [Idle EXCEPT !.pc = "login_commit", !.user_id = user.id,
                                         !.password = password,
                                                    !.token = sessMinted + 1,
                                                    !.expires_at = get_session_expiry(now)]]
                         /\ UNCHANGED last
    /\ UNCHANGED <<users, sessions, reset_tokens, now, ticks, resetMinted>>

\* a login that keeps one session per account: the new row replaces the
\* account's earlier ones
LoginCommitSingleSession(p) ==
    /\ proc[p].pc = "login_commit"
    /\ sessions' = {s \in sessions : s.user_id # proc[p].user_id} \cup
           {[user_id |-> proc[p].user_id, session_token |-> proc[p].token,
             expires_at |-> proc[p].expires_at]}
    /\ last' = [Response("login", 200, "") EXCEPT !.user = proc[p].user_id,
                                                 !.set_cookie = proc[p].token]
    /\ proc' = [proc EXCEPT ![p] = Idle]
    /\ UNCHANGED <<users, reset_tokens, now, ticks, sessMinted, resetMinted>>

\* db.add(session); db.commit(); response.set_cookie(...); return user
LoginCommit(p) ==
    /\ proc[p].pc = "login_commit"
    /\ sessions' = sessions \cup
           {[user_id |-> proc[p].user_id, session_token |-> proc[p].token,
             expires_at |-> proc[p].expires_at]}
    /\ last' = [Response("login", 200, "") EXCEPT !.user = proc[p].user_id,
                                                 !.set_cookie = proc[p].token]
    /\ proc' = [proc EXCEPT ![p] = Idle]
    /\ UNCHANGED <<users, reset_tokens, now, ticks, sessMinted, resetMinted>>

-----------------------------------------------------------------------------
(* logout (router.py 113-132) *)

\* a logout that ends every session of the cookie's account
LogoutEverywhere(p, session_token) ==
    /\ proc[p].pc = "idle"
    /\ session_token \notin LockedSessions(p)
    /\ sessions' = IF session_token # 0
                   THEN {s \in sessions :
                           \A x \in sessions :
                              x.session_token = session_token => x.user_id # s.user_id}
                   ELSE sessions
    /\ last' = [Response("logout", 200, "Logged out successfully") EXCEPT !.delete_cookie = TRUE]
    /\ UNCHANGED <<users, reset_tokens, now, ticks, sessMinted, resetMinted, proc>>

\* DELETE by token and commit; a row locked by an open transaction is waited for
Logout(p, session_token) ==
    /\ proc[p].pc = "idle"
    /\ session_token \notin LockedSessions(p)
    /\ sessions' = IF session_token # 0
                   THEN {s \in sessions : s.session_token # session_token}
                   ELSE sessions
    /\ last' = [Response("logout", 200, "Logged out successfully") EXCEPT !.delete_cookie = TRUE]
    /\ UNCHANGED <<users, reset_tokens, now, ticks, sessMinted, resetMinted, proc>>

-----------------------------------------------------------------------------
(* forgot_password (router.py 141-177) *)

ForgotAck ==
    Response("forgot_password", 200,
             "If an account exists with this email, you will receive a password reset link.")

\* a forgot_password that retires nothing (router.py 154-157 left out)
UnusedTokensNone(user_id) == {}

\* the unused reset tokens of an account, as the UPDATE's WHERE clause selects them
UnusedTokens(user_id) ==
    {t.token : t \in {r \in reset_tokens : r.user_id = user_id /\ ~r.used}}

\* a forgot_password that issues a token for a deactivated account too
\* (router.py 152 without the is_active test)
ForgotCallAnyAccount(p, email) ==
    /\ proc[p].pc = "idle"
    /\ LET found == UsersByEmail(lower(email))
       IN  IF found = {}
           THEN /\ last' = ForgotAck
                /\ UNCHANGED <<proc, resetMinted>>
           ELSE LET user == CHOOSE u \in found : TRUE
                    selected == UnusedTokens(user.id)
                IN  /\ resetMinted < MaxResetTokens
                    /\ resetMinted' = resetMinted + 1
                    /\ proc' = [proc EXCEPT ![p] =
                          [Idle EXCEPT !.pc = IF selected \cap LockedTokens(p) = {}
                                              THEN "forgot_commit" ELSE "forgot_wait",
                                       !.email = user.email, !.user_id = user.id,
                                       !.token = resetMinted + 1, !.rows = selected,
                                       !.expires_at = get_password_reset_expiry(now)]]
                    /\ UNCHANGED last
    /\ UNCHANGED <<users, sessions, reset_tokens, now, ticks, sessMinted>>

\* the request arrives: the account lookup and, for an active account, the
\* UPDATE that retires its unused tokens.  The UPDATE selects its rows at once;
\* where another open transaction holds one of them it waits for that
\* transaction to end.
ForgotCall(p, email) ==
    /\ proc[p].pc = "idle"
    /\ LET found == {u \in UsersByEmail(lower(email)) : u.is_active}
       IN  IF found = {}
           THEN /\ last' = ForgotAck
                /\ UNCHANGED <<proc, resetMinted>>
           ELSE LET user == CHOOSE u \in found : TRUE
                    selected == UnusedTokens(user.id)
                IN  /\ resetMinted < MaxResetTokens
                    /\ resetMinted' = resetMinted + 1
                    /\ proc' = [proc EXCEPT ![p] =
                          [Idle EXCEPT !.pc = IF selected \cap LockedTokens(p) = {}
                                              THEN "forgot_commit" ELSE "forgot_wait",
                                       !.email = user.email, !.user_id = user.id,
                                       !.token = resetMinted + 1, !.rows = selected,
                                       !.expires_at = get_password_reset_expiry(now)]]
                    /\ UNCHANGED last
    /\ UNCHANGED <<users, sessions, reset_tokens, now, ticks, sessMinted>>

\* the transaction the UPDATE waited for has ended: the UPDATE re-reads the rows
\* it selected and retires those that are still unused
ForgotWake(p) ==
    /\ proc[p].pc = "forgot_wait"
    /\ proc[p].rows \cap LockedTokens(p) = {}
    /\ proc' = [proc EXCEPT ![p].pc = "forgot_commit",
                            ![p].rows = proc[p].rows \cap UnusedTokens(proc[p].user_id),
                            ![p].expires_at = get_password_reset_expiry(now)]
    /\ UNCHANGED <<users, sessions, reset_tokens, now, ticks, sessMinted, resetMinted, last>>

\* the rows of password_reset_tokens after a forgot_password transaction commits
ForgotWrites(p) ==
    {[t EXCEPT !.used = t.used \/ t.token \in proc[p].rows] : t \in reset_tokens}
    \cup {[user_id |-> proc[p].user_id, token |-> proc[p].token,
           expires_at |-> proc[p].expires_at, used |-> FALSE]}

\* a forgot_password without the try/except around the send (router.py 171-175)
ForgotCommitRaises(p) ==
    /\ proc[p].pc = "forgot_commit"
    /\ reset_tokens' = ForgotWrites(p)
    /\ \E sent \in BOOLEAN :
          last' = IF sent THEN [ForgotAck EXCEPT !.mail = "sent"]
                  ELSE [InternalError("forgot_password") EXCEPT !.mail = "failed"]
    /\ proc' = [proc EXCEPT ![p] = Idle]
    /\ UNCHANGED <<users, sessions, now, ticks, sessMinted, resetMinted>>

\* db.add(reset_token); db.commit(); then the email is sent, and a failure of
\* the send is caught and dropped
ForgotCommit(p) ==
    /\ proc[p].pc = "forgot_commit"
    /\ reset_tokens' = ForgotWrites(p)
    /\ \E sent \in BOOLEAN :
          last' = [ForgotAck EXCEPT !.mail = IF sent THEN "sent" ELSE "failed"]
    /\ proc' = [proc EXCEPT ![p] = Idle]
    /\ UNCHANGED <<users, sessions, now, ticks, sessMinted, resetMinted>>

-----------------------------------------------------------------------------
(* reset_password (router.py 180-220) *)

\* a lookup that forgets the used flag (router.py 191)
ConsumableIgnoringUsed(token) ==
    {t \in reset_tokens : t.token = token /\ t.expires_at > now}

\* the consumable rows for a token value (router.py 189-193)
Consumable(token) ==
    {t \in reset_tokens : t.token = token /\ ~t.used /\ t.expires_at > now}

\* a reset_password that looks the token up before it validates the password
ResetCallTokenFirst(p, token, new_password) ==
    /\ proc[p].pc = "idle"
    /\ LET errors == ResetPasswordRequest_validate_password(new_password)
           found == Consumable(token)
       IN  IF found = {}
           THEN /\ last' = Response("reset_password", 400, "Invalid or expired reset token")
                /\ UNCHANGED proc
           ELSE IF errors # {}
           THEN /\ last' = ValidationError("reset_password", errors)
                /\ UNCHANGED proc
           ELSE LET reset_token == CHOOSE t \in found : TRUE
                IN  IF UsersById(reset_token.user_id) = {}
                    THEN /\ last' = Response("reset_password", 400, "User not found")
                         /\ UNCHANGED proc
                    ELSE /\ proc' = [proc EXCEPT ![p] =
                               [Idle EXCEPT !.pc = "reset_flush", !.token = token,
                                            !.user_id = reset_token.user_id,
                                            !.password = new_password,
                                            !.before = {s.session_token : s \in
                                               {x \in sessions : x.user_id = reset_token.user_id}}]]
                         /\ UNCHANGED last
    /\ UNCHANGED <<users, sessions, reset_tokens, now, ticks, sessMinted, resetMinted>>

\* the request arrives: schema validation, the token lookup, the account lookup
ResetCall(p, token, new_password) ==
    /\ proc[p].pc = "idle"
    /\ LET errors == ResetPasswordRequest_validate_password(new_password)
           found == Consumable(token)
       IN  IF errors # {}
           THEN /\ last' = ValidationError("reset_password", errors)
                /\ UNCHANGED proc
           ELSE IF found = {}
           THEN /\ last' = Response("reset_password", 400, "Invalid or expired reset token")
                /\ UNCHANGED proc
           ELSE LET reset_token == CHOOSE t \in found : TRUE
                IN  IF UsersById(reset_token.user_id) = {}
                    THEN /\ last' = Response("reset_password", 400, "User not found")
                         /\ UNCHANGED proc
                    ELSE /\ proc' = [proc EXCEPT ![p] =
                               [Idle EXCEPT !.pc = "reset_flush", !.token = token,
                                            !.user_id = reset_token.user_id,
                                            !.password = new_password,
                                            !.before = {s.session_token : s \in
                                               {x \in sessions : x.user_id = reset_token.user_id}}]]
                         /\ UNCHANGED last
    /\ UNCHANGED <<users, sessions, reset_tokens, now, ticks, sessMinted, resetMinted>>

\* a flush whose UPDATE of the account is committed at once instead of with the
\* transaction
ResetFlushAutocommit(p) ==
    /\ proc[p].pc = "reset_flush"
    /\ proc[p].user_id \notin LockedUsers(p)
    /\ proc[p].token \notin LockedTokens(p)
    /\ users' = {IF u.id = proc[p].user_id
                 THEN [u EXCEPT !.hashed_password = hash_password(proc[p].password)]
                 ELSE u : u \in users}
    /\ proc' = [proc EXCEPT ![p].pc = "reset_commit",
                            ![p].rows = {s.session_token : s \in
                                           {x \in sessions : x.user_id = proc[p].user_id}}]
    /\ UNCHANGED <<sessions, reset_tokens, now, ticks, sessMinted, resetMinted, last>>

\* the pending changes are flushed (UPDATE users, UPDATE password_reset_tokens by
\* primary key) and the sessions of the account are deleted, all inside the open
\* transaction; an UPDATE of a row another open transaction holds waits for it
ResetFlush(p) ==
    /\ proc[p].pc = "reset_flush"
    /\ proc[p].user_id \notin LockedUsers(p)
    /\ proc[p].token \notin LockedTokens(p)
    /\ proc' = [proc EXCEPT ![p].pc = "reset_commit",
                            ![p].rows = {s.session_token : s \in
                                           {x \in sessions : x.user_id = proc[p].user_id}}]
    /\ UNCHANGED <<users, sessions, reset_tokens, now, ticks, sessMinted, resetMinted, last>>

\* a reset_password that forgets the session wipe (router.py 216)
ResetCommitKeepsSessions(p) ==
    /\ proc[p].pc = "reset_commit"
    /\ users' = {IF u.id = proc[p].user_id
                 THEN [u EXCEPT !.hashed_password = hash_password(proc[p].password)]
                 ELSE u : u \in users}
    /\ reset_tokens' = {IF t.token = proc[p].token THEN [t EXCEPT !.used = TRUE] ELSE t
                        : t \in reset_tokens}
    /\ last' = Response("reset_password", 200,
                        "Password reset successful. Please log in with your new password.")
    /\ proc' = [proc EXCEPT ![p] = Idle]
    /\ UNCHANGED <<sessions, now, ticks, sessMinted, resetMinted>>

\* db.commit(): the three writes of the transaction become visible together
ResetCommit(p) ==
    /\ proc[p].pc = "reset_commit"
    /\ users' = {IF u.id = proc[p].user_id
                 THEN [u EXCEPT !.hashed_password = hash_password(proc[p].password)]
                 ELSE u : u \in users}
    /\ reset_tokens' = {IF t.token = proc[p].token THEN [t EXCEPT !.used = TRUE] ELSE t
                        : t \in reset_tokens}
    /\ sessions' = {s \in sessions : s.session_token \notin proc[p].rows}
    /\ last' = Response("reset_password", 200,
                        "Password reset successful. Please log in with your new password.")
    /\ proc' = [proc EXCEPT ![p] = Idle]
    /\ UNCHANGED <<now, ticks, sessMinted, resetMinted>>

-----------------------------------------------------------------------------
(* Store faults, the clock *)

\* the operation a worker is in the middle of
OpOf(pc) ==
    CASE pc = "register_commit" -> "register"
      [] pc = "login_commit" -> "login"
      [] pc \in {"forgot_wait", "forgot_commit"} -> "forgot_password"
      [] pc \in {"reset_flush", "reset_commit"} -> "reset_password"
      [] OTHER -> "none"

\* a statement or the commit raises: the exception leaves the handler, the
\* session is closed without a commit and its transaction is rolled back
Fault(p) ==
    /\ proc[p].pc # "idle"
    /\ proc' = [proc EXCEPT ![p] = Idle]
    /\ last' = InternalError(OpOf(proc[p].pc))
    /\ UNCHANGED <<users, sessions, reset_tokens, now, ticks, sessMinted, resetMinted>>

\* time passes: by the lifetime of a reset token or by that of a session
Tick ==
    /\ ticks < MaxTicks
    /\ ticks' = ticks + 1
    /\ \E d \in {password_reset_expire_hours, session_expire_days * 24} : now' = now + d
    /\ UNCHANGED <<users, sessions, reset_tokens, sessMinted, resetMinted, proc, last>>

-----------------------------------------------------------------------------
(* resolve_session (dependencies.py 10-28): the account a cookie resolves to, *)
(* as a set with at most one element                                          *)

\* a resolution that still accepts a session at the instant it expires
get_current_user_at_expiry(session_token) ==
    IF session_token = 0
    THEN {}
    ELSE LET found == {s \in sessions : s.session_token = session_token
                                         /\ s.expires_at >= now}
         IN  IF found = {}
             THEN {}
             ELSE {u \in users : u.is_active /\ \E s \in found : u.id = s.user_id}

get_current_user_from_cookie(session_token) ==
    IF session_token = 0
    THEN {}
    ELSE LET found == {s \in sessions : s.session_token = session_token
                                         /\ s.expires_at > now}
         IN  IF found = {}
             THEN {}
             ELSE {u \in users : u.is_active /\ \E s \in found : u.id = s.user_id}

\* get_current_user (dependencies.py 31-49), the dependency of GET /me
\* (router.py 135-138): the account of the cookie, or 401
get_current_user(session_token) ==
    IF session_token = 0
    THEN Response("me", 401, "Not authenticated")
    ELSE LET user == get_current_user_from_cookie(session_token)
         IN  IF user = {}
             THEN Response("me", 401, "Invalid or expired session")
             ELSE [Response("me", 200, "") EXCEPT !.user = (CHOOSE u \in user : TRUE).id]

\* GET /api/auth/me
get_me(p, session_token) ==
    /\ proc[p].pc = "idle"
    /\ last' = get_current_user(session_token)
    /\ UNCHANGED <<users, sessions, reset_tokens, now, ticks, sessMinted, resetMinted, proc>>

-----------------------------------------------------------------------------
(* AuthMiddleware (main.py 39-80) *)

\* str.startswith(prefix)
startswith(s, prefix) ==
    /\ Len(s) >= Len(prefix)
    /\ SubSeq(s, 1, Len(prefix)) = prefix

PUBLIC_PATHS ==
    {<<"/","l","o","g","i","n">>,
     <<"/","r","e","g","i","s","t","e","r">>,
     <<"/","r","e","s","e","t","-","p","a","s","s","w","o","r","d">>,
     <<"/","f","o","r","g","o","t","-","p","a","s","s","w","o","r","d">>,
     <<"/","a","p","i","/","a","u","t","h","/">>,
     <<"/","a","p","i","/","h","e","a","l","t","h">>,
     <<"/","f","a","v","i","c","o","n",".","i","c","o">>}

\* any(path.startswith(p) for p in self.PUBLIC_PATHS)
IsPublic(path) == \E prefix \in PUBLIC_PATHS : startswith(path, prefix)

\* return await call_next(request), with request.state.user when it was set
CallNext(user) == [Response("dispatch", 200, "call_next") EXCEPT !.user = user]

\* RedirectResponse(url="/login", status_code=302)
RedirectToLogin == Response("dispatch", 302, "/login")

\* a gate that lets the request through when resolution raises
dispatch_fail_open(p, path, session_token, raises) ==
    /\ proc[p].pc = "idle"
    /\ last' =
          IF IsPublic(path) THEN CallNext(0)
          ELSE IF session_token = 0 THEN RedirectToLogin
          ELSE IF raises THEN [CallNext(0) EXCEPT !.raised = TRUE]
          ELSE LET user == get_current_user_from_cookie(session_token)
               IN  IF user = {}
                   THEN [RedirectToLogin EXCEPT !.delete_cookie = TRUE]
                   ELSE CallNext((CHOOSE u \in user : TRUE).id)
    /\ UNCHANGED <<users, sessions, reset_tokens, now, ticks, sessMinted, resetMinted, proc>>

\* a gate that redirects without telling the browser to drop the cookie
dispatch_keeps_cookie(p, path, session_token, raises) ==
    /\ proc[p].pc = "idle"
    /\ last' =
          IF IsPublic(path) THEN CallNext(0)
          ELSE IF session_token = 0 THEN RedirectToLogin
          ELSE IF raises THEN [RedirectToLogin EXCEPT !.raised = TRUE]
          ELSE LET user == get_current_user_from_cookie(session_token)
               IN  IF user = {}
                   THEN RedirectToLogin
                   ELSE CallNext((CHOOSE u \in user : TRUE).id)
    /\ UNCHANGED <<users, sessions, reset_tokens, now, ticks, sessMinted, resetMinted, proc>>

\* a gate that deletes the session rows it finds expired
dispatch_purges(p, path, session_token, raises) ==
    /\ proc[p].pc = "idle"
    /\ last' =
          IF IsPublic(path) THEN CallNext(0)
          ELSE IF session_token = 0 THEN RedirectToLogin
          ELSE IF raises THEN [RedirectToLogin EXCEPT !.raised = TRUE]
          ELSE LET user == get_current_user_from_cookie(session_token)
               IN  IF user = {}
                   THEN [RedirectToLogin EXCEPT !.delete_cookie = TRUE]
                   ELSE CallNext((CHOOSE u \in user : TRUE).id)
    /\ sessions' = IF IsPublic(path) \/ session_token = 0 \/ raises
                   THEN sessions
                   ELSE {s \in sessions : s.session_token # session_token
                                             \/ s.expires_at > now}
    /\ UNCHANGED <<users, reset_tokens, now, ticks, sessMinted, resetMinted, proc>>

\* AuthMiddleware.dispatch for one request; raises says whether the session
\* lookup throws
dispatch(p, path, session_token, raises) ==
    /\ proc[p].pc = "idle"
    /\ last' =
          IF IsPublic(path) THEN CallNext(0)
          ELSE IF session_token = 0 THEN RedirectToLogin
          ELSE IF raises THEN [RedirectToLogin EXCEPT !.raised = TRUE]
          ELSE LET user == get_current_user_from_cookie(session_token)
               IN  IF user = {}
                   THEN [RedirectToLogin EXCEPT !.delete_cookie = TRUE]
                   ELSE CallNext((CHOOSE u \in user : TRUE).id)
    /\ UNCHANGED <<users, sessions, reset_tokens, now, ticks, sessMinted, resetMinted, proc>>

\* sub in s, for sequences
contains(s, sub) ==
    \E i \in 1..(Len(s) - Len(sub) + 1) : SubSeq(s, i, i + Len(sub) - 1) = sub

\* serve_static(path): the catch-all route; exists says whether
\* static/<path> is a file
serve_static(path, exists) ==
    IF contains(path, <<".", ".">>) THEN Response("serve_static", 400, "Invalid path")
    ELSE IF exists THEN Response("serve_static", 200, "FileResponse")
    ELSE Response("serve_static", 404, "File not found")

\* GET of a path that only the catch-all route matches: the gate decides as in
\* dispatch, and call_next runs serve_static with the account the gate attached
GetStatic(p, path, session_token, raises, exists) ==
    /\ proc[p].pc = "idle"
    /\ last' =
          IF IsPublic(path) THEN serve_static(path, exists)
          ELSE IF session_token = 0 THEN RedirectToLogin
          ELSE IF raises THEN [RedirectToLogin EXCEPT !.raised = TRUE]
          ELSE LET user == get_current_user_from_cookie(session_token)
               IN  IF user = {}
                   THEN [RedirectToLogin EXCEPT !.delete_cookie = TRUE]
                   ELSE [serve_static(path, exists)
                            EXCEPT !.user = (CHOOSE u \in user : TRUE).id]
    /\ UNCHANGED <<users, sessions, reset_tokens, now, ticks, sessMinted, resetMinted, proc>>

-----------------------------------------------------------------------------
(* The system *)

\* one step of worker p, its requests drawn from the given emails and passwords
Step(p, emails, passwords) ==
    \/ \E email \in emails, password \in passwords : RegisterCall(p, email, password)
    \/ RegisterCommit(p)
    \/ \E email \in emails, password \in passwords : LoginCall(p, email, password)
    \/ LoginCommit(p)
    \/ \E session_token \in SessionTokenInputs : Logout(p, session_token)
    \/ \E email \in emails : ForgotCall(p, email)
    \/ ForgotCommit(p)
    \/ \E token \in ResetTokenInputs, password \in passwords : ResetCall(p, token, password)
    \/ ResetFlush(p)
    \/ ResetCommit(p)
    \/ Fault(p)

\* requests are served concurrently by the workers.  The races between
\* handlers depend neither on the clock nor on requests that fail validation,
\* so this specification holds the clock still and draws well-formed requests.
Next == \E p \in Procs : (Step(p, RaceEmails, RacePasswords) \/ ForgotWake(p))

Spec == Init /\ [][Next]_vars

\* requests are served one after another (by a single worker) while time passes
SeqNext == Tick \/ \E p \in {"w1"} : Step(p, Emails, Passwords)

SeqSpec == Init /\ [][SeqNext]_vars

\* the request bodies of one client, every password rule among them, served
\* one after another while the clock stands still
FormNext == \E p \in {"w1"} : Step(p, Emails, PolicyPasswords)

FormSpec == Init /\ [][FormNext]_vars

\* the requests of one browser: it registers, logs in and out, and presents
\* its cookie (or that of the deactivated account) to the gate and to GET /me
\* while time passes
GateNext ==
    \/ Tick
    \/ \E p \in {"w1"} :
          \/ \E email \in RaceEmails, password \in RacePasswords :
                RegisterCall(p, email, password)
          \/ RegisterCommit(p)
          \/ \E email \in Emails, password \in RacePasswords :
                LoginCall(p, email, password)
          \/ LoginCommit(p)
          \/ \E session_token \in SessionTokenInputs : Logout(p, session_token)
          \/ \E session_token \in CookieInputs : get_me(p, session_token)
          \/ \E path \in Paths, session_token \in CookieInputs, raises \in BOOLEAN :
                dispatch(p, path, session_token, raises)
          \/ \E path \in StaticPaths, session_token \in CookieInputs,
                raises \in BOOLEAN, exists \in BOOLEAN :
                GetStatic(p, path, session_token, raises, exists)

GateSpec == Init /\ [][GateNext]_vars

-----------------------------------------------------------------------------
(* Steps, as the claims speak of them *)

\* worker p's reset_password commits and answers 200 in this step
ResetSucceeds(p) ==
    /\ proc[p].pc = "reset_commit"
    /\ proc'[p].pc = "idle"
    /\ last'.op = "reset_password"
    /\ last'.status = 200

\* the passwords that pass login's credential check for an account
PasswordsOf(user_id) ==
    {pw \in Passwords : \E u \in UsersById(user_id) :
                            verify_password(pw, u.hashed_password)}

-----------------------------------------------------------------------------
(* C1 *)

\* C1 (as stated): when a reset_password call succeeds for an account, none of
\* the session rows the account had when the call began remains and none of
\* their tokens resolves, no password that verified before verifies any more,
\* and the new password verifies.
C1_Original ==
    [][\A p \in Procs : ResetSucceeds(p) =>
          \A a \in {proc[p].user_id}, new \in {proc[p].password} :
             /\ \A t \in proc[p].before :
                   /\ \A s \in sessions' : s.session_token # t
                   /\ get_current_user_from_cookie(t)' = {}
             /\ \A old \in PasswordsOf(a) : old \notin PasswordsOf(a)'
             /\ new \in PasswordsOf(a)']_vars

\* C1 (amended): as above, except that the old password stops verifying only
\* when the new password differs from it.
C1_ResetRevokesSessions ==
    [][\A p \in Procs : ResetSucceeds(p) =>
          \A a \in {proc[p].user_id}, new \in {proc[p].password} :
             /\ \A t \in proc[p].before :
                   /\ \A s \in sessions' : s.session_token # t
                   /\ get_current_user_from_cookie(t)' = {}
             /\ \A old \in PasswordsOf(a) : old # new => old \notin PasswordsOf(a)'
             /\ new \in PasswordsOf(a)']_vars

\* a reset has just succeeded for an account that had logged in before: the
\* account has no session left and its password is the new one
C1_Witness ==
    /\ last.op = "reset_password" /\ last.status = 200
    /\ sessMinted > 0
    /\ \E u \in users : /\ u.email = AliceEmail
                         /\ verify_password(NewPass, u.hashed_password)
                         /\ \A s \in sessions : s.user_id # u.id

-----------------------------------------------------------------------------
(* C2 *)

InvalidOrExpired == Response("reset_password", 400, "Invalid or expired reset token")

\* C2: a reset token is single-use.  A used flag that is true stays true in
\* every later state, and a reset_password call with a token whose used flag
\* is true fails and changes nothing; when its body passes the schema the
\* failure is InvalidOrExpired.
C2_TokenSingleUse ==
    [][/\ \A t \in reset_tokens :
             t.used => \E r \in reset_tokens' : r.token = t.token /\ r.used
       /\ \A p \in Procs, token \in ResetTokenInputs, password \in Passwords :
             (/\ ResetCall(p, token, password)
              /\ \E t \in reset_tokens : t.token = token /\ t.used)
             => /\ UNCHANGED <<users, sessions, reset_tokens, proc>>
                /\ last'.op = "reset_password" /\ last'.status \in {400, 422}
                /\ validate_password(password) = {} => last' = InvalidOrExpired]_vars

\* the only reset token ever issued has been consumed by a reset that set the
\* new password, and a further reset_password has just been refused
C2_Witness ==
    /\ last = InvalidOrExpired
    /\ resetMinted = 1
    /\ \E t \in reset_tokens : t.used
    /\ \E u \in users : u.email = AliceEmail /\ verify_password(NewPass, u.hashed_password)

-----------------------------------------------------------------------------
(* C3 *)

\* the reset tokens of an account that are unused and unexpired
LiveTokens(user_id) ==
    {t \in reset_tokens : t.user_id = user_id /\ ~t.used /\ t.expires_at > now}

\* C3: with requests served one after another, every account has at most one
\* unused, unexpired reset token in every state, and a forgot_password that
\* stores a new token leaves every earlier token of the account used, so that
\* none of them is consumable.
C3_OneLiveTokenSequential ==
    /\ [](\A u \in users : Cardinality(LiveTokens(u.id)) <= 1)
    /\ [][\A p \in Procs :
            (proc[p].pc = "forgot_commit" /\ proc'[p].pc = "idle" /\ last'.status = 200)
            => \A t \in reset_tokens :
                  t.user_id = proc[p].user_id
                  => /\ \E r \in reset_tokens' : r.token = t.token /\ r.used
                     /\ Consumable(t.token)' = {}]_vars

\* forgot_password has run twice for one account: the first token is used, the
\* second is the only unused one
C3_Witness ==
    /\ last.op = "forgot_password" /\ last.mail # "none"
    /\ \E t1, t2 \in reset_tokens :
          /\ t1.user_id = t2.user_id
          /\ t1.token < t2.token
          /\ t1.used /\ ~t2.used

-----------------------------------------------------------------------------
(* C4 *)

\* worker p is serving a reset_password and takes this step
ResetStep(p) ==
    /\ proc'[p] # proc[p]
    /\ \/ proc[p].pc \in {"reset_flush", "reset_commit"}
       \/ proc'[p].pc = "reset_flush"

\* C4: the three effects of reset_password are one unit.  Every step of a
\* reset_password, a store fault included, either leaves the committed rows
\* as they were or is the commit, after which the account holds the new
\* digest, the token is used and every session the wipe selected is gone; and
\* no other step changes a password digest.
C4_ResetIsOneUnit ==
    [][/\ \A p \in Procs : ResetStep(p) =>
             \/ UNCHANGED <<users, sessions, reset_tokens>>
             \/ /\ ResetSucceeds(p)
                /\ \A u \in users' :
                      u.id = proc[p].user_id
                      => u.hashed_password = hash_password(proc[p].password)
                /\ \A t \in reset_tokens' : t.token = proc[p].token => t.used
                /\ \A s \in sessions' : s.session_token \notin proc[p].rows
       /\ (\E u \in users : \A v \in users' : v.id = u.id
                                 => v.hashed_password # u.hashed_password)
             => \E p \in Procs : ResetSucceeds(p)]_vars

\* one reset_password has met a store fault and another has flushed its writes
\* and selected a session to wipe without committing yet: the committed rows
\* show none of the effects (the token is unused, the session is there)
C4_Witness ==
    /\ last = InternalError("reset_password")
    /\ \E t \in reset_tokens : ~t.used
    /\ sessions # {}
    /\ \E p \in Procs : proc[p].pc = "reset_commit" /\ proc[p].rows # {}

-----------------------------------------------------------------------------
(* C5 *)

\* C5: of the reset_password calls that run concurrently with one token at most
\* one succeeds.  A reset that succeeds with the token issued last (which no
\* forgot_password has retired) finds it unused when it commits.
C5_TokenConsumedOnce ==
    [][\A p \in Procs :
          (ResetSucceeds(p) /\ proc[p].token = resetMinted)
          => \A t \in reset_tokens : t.token = proc[p].token => ~t.used]_vars

-----------------------------------------------------------------------------
(* C6 *)

\* C6: when forgot_password calls for one account run concurrently, the account
\* has at most one unused, unexpired reset token in every state.
C6_OneLiveTokenConcurrent ==
    \A u \in users : Cardinality(LiveTokens(u.id)) <= 1

-----------------------------------------------------------------------------
(* C7 *)

Unauthorized == Response("login", 401, "Invalid email or password")

\* C7: a login with an email no account has and a login with the email of an
\* account but a password that does not verify receive the same response,
\* status 401 with one fixed body, and neither creates or prepares a session.
C7_LoginFailuresAlike ==
    [][\A p \in Procs, email \in Emails, password \in Passwords :
          (/\ LoginCall(p, email, password)
           /\ \/ UsersByEmail(lower(email)) = {}
              \/ \E u \in UsersByEmail(lower(email)) :
                    ~verify_password(password, u.hashed_password))
          => /\ last' = Unauthorized
             /\ UNCHANGED <<users, sessions, reset_tokens, proc, sessMinted>>]_vars

\* a login has just been refused with 401 while one account exists whose email
\* was asked with a wrong password and another email has no account
C7_Witness ==
    /\ last = Unauthorized
    /\ \E u \in users : u.email = AliceEmail /\ ~verify_password(NewPass, u.hashed_password)
    /\ UsersByEmail(GmailEmail) = {}

-----------------------------------------------------------------------------
(* C8 *)

\* the active accounts an email matches once lowercased
ActiveMatch(email) == {u \in UsersByEmail(lower(email)) : u.is_active}

\* C8: forgot_password answers every email with the same acknowledgment.  For
\* an email that matches no active account the call ends at once, sends no
\* email and leaves the store as it was; for one that matches, the call goes
\* on to its commit, which adds exactly one row, for that account, and
\* attempts the send.
C8_ForgotSameAck ==
    [][/\ \A p \in Procs, email \in Emails :
             ForgotCall(p, email) =>
                IF ActiveMatch(email) = {}
                THEN /\ last' = ForgotAck
                     /\ UNCHANGED <<users, sessions, reset_tokens, proc, resetMinted>>
                ELSE /\ proc'[p].pc = "forgot_commit"
                     /\ \E u \in ActiveMatch(email) : proc'[p].user_id = u.id
                     /\ UNCHANGED <<users, sessions, reset_tokens, last>>
       /\ \A p \in Procs :
             (proc[p].pc = "forgot_commit" /\ proc'[p].pc = "idle" /\ last'.status # 500)
             => /\ last'.status = ForgotAck.status /\ last'.body = ForgotAck.body
                /\ last'.mail \in {"sent", "failed"}
                /\ \E t \in reset_tokens' :
                      /\ t.user_id = proc[p].user_id /\ t.token = proc[p].token
                      /\ {r.token : r \in reset_tokens'} =
                            {r.token : r \in reset_tokens} \cup {t.token}
                      /\ \A r \in reset_tokens : r.token # t.token]_vars

\* forgot_password has just acknowledged an email without sending anything,
\* after an earlier call for an active account had stored a token
C8_Witness ==
    /\ last = ForgotAck
    /\ reset_tokens # {}
    /\ \E u \in users : ~u.is_active

-----------------------------------------------------------------------------
(* C9 *)

\* C9: when the email send fails, forgot_password still answers with the
\* acknowledgment, and the store is as after a successful send: the new token
\* is stored unused, the earlier tokens of the account are used, nothing else
\* has changed.
C9_SendFailureSwallowed ==
    [][\A p \in Procs :
          (proc[p].pc = "forgot_commit" /\ proc'[p].pc = "idle" /\ last'.mail = "failed")
          => /\ last' = [ForgotAck EXCEPT !.mail = "failed"]
             /\ \E t \in reset_tokens' :
                   t.token = proc[p].token /\ t.user_id = proc[p].user_id /\ ~t.used
             /\ \A t \in reset_tokens' :
                   (t.user_id = proc[p].user_id /\ t.token # proc[p].token) => t.used
             /\ \A t \in reset_tokens :
                   \E r \in reset_tokens' : r.token = t.token /\ r.expires_at = t.expires_at
                                              /\ r.user_id = t.user_id
             /\ UNCHANGED <<users, sessions>>]_vars

\* the send has just failed on the second forgot_password of an account: the
\* answer is the acknowledgment, the first token is used, the second is not
C9_Witness ==
    /\ last.op = "forgot_password" /\ last.status = 200 /\ last.mail = "failed"
    /\ \E t1, t2 \in reset_tokens : t1.user_id = t2.user_id /\ t1.used /\ ~t2.used

-----------------------------------------------------------------------------
(* C10 *)

DomainError == "Only @vysusgroup.com emails are allowed"

\* C10: register answers an email that, lowercased, does not end in
\* "@vysusgroup.com" with a validation error and creates no account; and the
\* email of every account in every state is lowercase and ends in that suffix.
C10_ApprovedDomainOnly ==
    /\ [](\A u \in users : u.email = lower(u.email) /\ endswith(u.email, VysusSuffix))
    /\ [][\A p \in Procs, email \in Emails, password \in Passwords :
            (~endswith(lower(email), VysusSuffix) /\ RegisterCall(p, email, password))
            => /\ last'.op = "register" /\ last'.status = 422
               /\ DomainError \in last'.errors
               /\ UNCHANGED <<users, sessions, reset_tokens, proc>>]_vars

\* a registration has just been refused for its domain, after another was accepted
C10_Witness ==
    /\ last.op = "register" /\ last.status = 422 /\ DomainError \in last.errors
    /\ \E u \in users : u.email = AliceEmail

-----------------------------------------------------------------------------
(* C11 *)

\* the password policy, rule by rule
FailsPolicy(v) ==
    \/ Len(v) < MinPasswordLength
    \/ \A i \in 1..Len(v) : v[i] \notin UpperSet
    \/ \A i \in 1..Len(v) : v[i] \notin LowerSet
    \/ \A i \in 1..Len(v) : v[i] \notin Digits

\* C11: a password that fails one of the four rules (length at least 10, an
\* uppercase letter, a lowercase letter, a digit) makes register and
\* reset_password answer with a validation error and leave the store and the
\* caller's transaction untouched, whatever the email or the token; and the
\* two validators reject exactly the same passwords, those that fail a rule.
C11_PasswordPolicy ==
    /\ [](\A v \in PolicyPasswords :
             /\ (validate_password(v) # {}) = FailsPolicy(v)
             /\ (ResetPasswordRequest_validate_password(v) # {}) = FailsPolicy(v))
    /\ [][\A p \in Procs, v \in {x \in PolicyPasswords : FailsPolicy(x)} :
             /\ \A email \in Emails :
                   RegisterCall(p, email, v) =>
                      /\ last'.op = "register" /\ last'.status = 422
                      /\ validate_password(v) \subseteq last'.errors
                      /\ UNCHANGED <<users, sessions, reset_tokens, proc>>
             /\ \A token \in ResetTokenInputs :
                   ResetCall(p, token, v) =>
                      /\ last'.op = "reset_password" /\ last'.status = 422
                      /\ validate_password(v) \subseteq last'.errors
                      /\ UNCHANGED <<users, sessions, reset_tokens, proc>>]_vars

\* reset_password has just refused a password without a digit although the
\* token it was called with is still consumable
C11_Witness ==
    /\ last.op = "reset_password" /\ last.status = 422
    /\ last.errors = {"Password must contain at least one number"}
    /\ \E t \in reset_tokens : Consumable(t.token) # {}

-----------------------------------------------------------------------------
(* C12 *)

Conflict == Response("register", 400, "An account with this email already exists")

\* C12: with requests served one after another, a register whose body is valid
\* and whose email, lowercased, is already that of an account answers 400 "An
\* account with this email already exists" and leaves the accounts as they
\* were, the first registration's digest included; and in every state no two
\* accounts share an email.
C12_SecondRegisterConflicts ==
    /\ [](\A u1, u2 \in users : u1.email = u2.email => u1 = u2)
    /\ [][\A email \in Emails :
            (UsersByEmail(lower(email)) # {} /\ validate_vysus_email(email) = {})
            => \A p \in Procs, password \in Passwords :
                  (validate_password(password) = {} /\ RegisterCall(p, email, password))
                  => /\ last' = Conflict
                     /\ UNCHANGED <<users, sessions, reset_tokens, proc>>]_vars

\* a second registration of al@vysusgroup.com has just been refused and the
\* one account with that email exists
C12_Witness ==
    /\ last = Conflict
    /\ Cardinality(UsersByEmail(AliceEmail)) = 1

-----------------------------------------------------------------------------
(* C13 *)

\* the active accounts whose credentials an (email, password) pair presents
Authenticates(email, password) ==
    {u \in UsersByEmail(lower(email)) :
        u.is_active /\ verify_password(password, u.hashed_password)}

\* C13: a login with the credentials of an active account prepares a session
\* for that account with a token no session row carries and an expiry of now
\* plus the configured lifetime; its commit adds exactly that one row, leaves
\* every other row as it was, and returns the account and the token in the
\* set-cookie instruction.
C13_LoginAddsOneSession ==
    [][/\ \A email \in Emails, password \in Passwords :
             Authenticates(email, password) # {} =>
                \A p \in Procs :
                   LoginCall(p, email, password) =>
                      /\ proc'[p].pc = "login_commit"
                      /\ proc'[p].user_id \in {u.id : u \in Authenticates(email, password)}
                      /\ proc'[p].token # 0
                      /\ \A s \in sessions : s.session_token # proc'[p].token
                      /\ proc'[p].expires_at = now + session_expire_days * 24
                      /\ UNCHANGED sessions
       /\ \A p \in Procs :
             (proc[p].pc = "login_commit" /\ proc'[p].pc = "idle" /\ last'.status # 500)
             => LET new == [user_id |-> proc[p].user_id, session_token |-> proc[p].token,
                            expires_at |-> proc[p].expires_at]
                IN  /\ new \notin sessions
                    /\ sessions' = sessions \cup {new}
                    /\ last'.op = "login" /\ last'.status = 200
                    /\ last'.user = new.user_id
                    /\ last'.set_cookie = new.session_token
                    /\ UNCHANGED <<users, reset_tokens>>]_vars

\* a second login of one account has just succeeded and both of its sessions
\* resolve to it
C13_Witness ==
    /\ last.op = "login" /\ last.status = 200
    /\ \E s1, s2 \in sessions :
          /\ s1.session_token # s2.session_token
          /\ s1.user_id = s2.user_id
          /\ get_current_user_from_cookie(s1.session_token) # {}
          /\ get_current_user_from_cookie(s1.session_token) =
                get_current_user_from_cookie(s2.session_token)
          /\ last.set_cookie = s2.session_token

-----------------------------------------------------------------------------
(* C14 *)

Forbidden == Response("login", 403, "Account is deactivated")

\* the deactivated accounts an email matches once lowercased
Deactivated(email) == {u \in UsersByEmail(lower(email)) : ~u.is_active}

\* C14 as stated: a login for an existing account whose active flag is false
\* answers Forbidden and creates no session, whatever the password.
C14_Original ==
    [][\A email \in Emails :
          Deactivated(email) # {} =>
             \A p \in Procs, password \in Passwords :
                LoginCall(p, email, password) =>
                   /\ last' = Forbidden
                   /\ UNCHANGED <<users, sessions, reset_tokens, proc, sessMinted>>]_vars

\* C14, amended: a login for an account whose active flag is false answers
\* Forbidden when the password verifies and Unauthorized when it does not; in
\* both cases no session is created or prepared.
C14_InactiveLoginForbidden ==
    [][\A email \in Emails :
          Deactivated(email) # {} =>
             \A p \in Procs, password \in Passwords :
                LoginCall(p, email, password) =>
                   /\ last' = IF \E u \in Deactivated(email) :
                                    verify_password(password, u.hashed_password)
                              THEN Forbidden
                              ELSE Unauthorized
                   /\ UNCHANGED <<users, sessions, reset_tokens, proc, sessMinted>>]_vars

\* a login with the password of the deactivated account has just been refused
C14_Witness ==
    /\ last = Forbidden
    /\ \E u \in users : ~u.is_active /\ verify_password(GoodPass, u.hashed_password)
    /\ \A s \in sessions : s \in SeedSessions

-----------------------------------------------------------------------------
(* C15 *)

LoggedOut ==
    [Response("logout", 200, "Logged out successfully") EXCEPT !.delete_cookie = TRUE]

\* token has been handed to a client and no session row carries it
Revoked(token) ==
    /\ token \in 1..sessMinted \/ token = SeedToken
    /\ \A p \in Procs : proc[p].pc = "login_commit" => proc[p].token # token
    /\ \A s \in sessions : s.session_token # token

\* C15: with requests served one after another, logout deletes the session
\* row with the cookie's token and no other row, answers 200 with the
\* instruction to delete the cookie whether or not a row matched, and changes
\* nothing when the cookie is empty or matches no row; afterwards the token
\* resolves to no account, and a token without a row never gets one again.
C15_LogoutRevokesOneSession ==
    [][/\ \A p \in Procs, token \in SessionTokenInputs :
             Logout(p, token) =>
                /\ sessions' = {s \in sessions : s.session_token # token}
                /\ \A s \in sessions' : s \in sessions
                /\ ((token = 0 \/ \A s \in sessions : s.session_token # token)
                      => UNCHANGED sessions)
                /\ last' = LoggedOut
                /\ get_current_user_from_cookie(token)' = {}
                /\ UNCHANGED <<users, reset_tokens, proc>>
       /\ \A token \in CookieInputs :
             Revoked(token) => Revoked(token)' /\ get_current_user_from_cookie(token)' = {}]_vars

\* the first of two sessions of an account has just been logged out: the
\* second still resolves, the first does not
C15_Witness ==
    /\ last = LoggedOut
    /\ Revoked(1)
    /\ get_current_user_from_cookie(1) = {}
    /\ get_current_user_from_cookie(2) # {}

-----------------------------------------------------------------------------
(* C16 *)

\* the active owners of the unexpired session rows that carry the token
ValidOwners(token) ==
    {u \in users : /\ u.is_active
                   /\ \E s \in sessions : /\ s.session_token = token
                                           /\ now < s.expires_at
                                           /\ s.user_id = u.id}

\* C16: in every state and for every cookie value, session resolution returns
\* an account exactly when the value is non-empty, a session row carries it
\* with an expiry strictly after now, and the row's owner exists and is
\* active; the account returned is that owner, and in every other case the
\* result is none.  GET /me answers with that account, and with 401 otherwise.
C16_ResolveIffValid ==
    /\ [](\A token \in CookieInputs :
             /\ get_current_user_from_cookie(token) =
                   IF token = 0 THEN {} ELSE ValidOwners(token)
             /\ Cardinality(get_current_user_from_cookie(token)) <= 1)
    /\ [][\A p \in Procs, token \in CookieInputs :
             get_me(p, token) =>
                IF token # 0 /\ ValidOwners(token) # {}
                THEN /\ last'.status = 200
                     /\ last'.user \in {u.id : u \in ValidOwners(token)}
                ELSE last'.status = 401 /\ last'.user = 0]_vars

\* GET /me has just refused a cookie whose session expires at this very
\* instant, while the row and its active owner are still in the store
C16_Witness ==
    /\ last = Response("me", 401, "Invalid or expired session")
    /\ \E s \in sessions : /\ s.expires_at = now
                           /\ \E u \in users : u.id = s.user_id /\ u.is_active

-----------------------------------------------------------------------------
(* C17 *)

\* C17: the access-control gate and GET /me, whatever they answer, leave the
\* accounts, the sessions and the reset tokens as they were; a session row
\* found expired is refused and stays in the table.
C17_ResolutionReadsOnly ==
    [][/\ last'.op = "dispatch" =>
             \A p \in Procs, path \in Paths, token \in CookieInputs, raises \in BOOLEAN :
                dispatch(p, path, token, raises) =>
                   UNCHANGED <<users, sessions, reset_tokens>>
       /\ last'.op = "me" =>
             \A p \in Procs, token \in CookieInputs :
                get_me(p, token) => UNCHANGED <<users, sessions, reset_tokens>>]_vars

\* the gate has just turned away the cookie of an expired session and the
\* session row is still stored
C17_Witness ==
    /\ last = [RedirectToLogin EXCEPT !.delete_cookie = TRUE]
    /\ \E s \in sessions : /\ s.session_token \in 1..MaxSessions
                           /\ s.expires_at <= now

-----------------------------------------------------------------------------
(* C18 *)

\* the request paths that begin with a public prefix, and those that do not
PublicInputs == {LoginPath, MePath}
ProtectedInputs == {RootPath, LogPath}

\* C18: when the session lookup does not raise, the gate lets a path with a
\* public prefix through without looking at the cookie; redirects a protected
\* path without a cookie to /login; redirects a protected path whose cookie
\* resolves to no active account to /login and deletes the cookie; and lets a
\* protected path through only with the account the cookie resolves to
\* attached to the request.
C18_GateDecision ==
    [][last'.op = "dispatch" =>
          \A p \in Procs, path \in Paths, token \in CookieInputs :
             dispatch(p, path, token, FALSE) =>
                /\ path \in PublicInputs => last' = CallNext(0)
                /\ (path \in ProtectedInputs /\ token = 0) => last' = RedirectToLogin
                /\ (path \in ProtectedInputs /\ token # 0 /\ ValidOwners(token) = {})
                      => last' = [RedirectToLogin EXCEPT !.delete_cookie = TRUE]
                /\ (path \in ProtectedInputs /\ token # 0 /\ ValidOwners(token) # {})
                      => \E u \in ValidOwners(token) : last' = CallNext(u.id)
                /\ (path \in ProtectedInputs /\ last'.status = 200)
                      => last'.user \in {u.id : u \in get_current_user_from_cookie(token)}]_vars

\* the gate has just turned away, with the instruction to delete the cookie, a
\* cookie that names a session which is expired or whose account is
\* deactivated, while some other cookie would pass
C18_Witness ==
    /\ last = [RedirectToLogin EXCEPT !.delete_cookie = TRUE]
    /\ \E token \in CookieInputs : ValidOwners(token) # {}
    /\ \E s \in sessions : ValidOwners(s.session_token) = {}

-----------------------------------------------------------------------------
(* C19 *)

\* C19: when the session lookup for a protected path raises, the gate
\* redirects the request to /login and attaches no account: the handler
\* behind the gate is not reached, even when the cookie names a valid session.
C19_GateFailsClosed ==
    [][last'.op = "dispatch" =>
          \A p \in Procs, path \in ProtectedInputs, token \in CookieInputs :
             (token # 0 /\ dispatch(p, path, token, TRUE)) =>
                /\ last'.status = 302 /\ last'.body = "/login"
                /\ last'.user = 0
                /\ last'.raised
                /\ UNCHANGED <<users, sessions, reset_tokens>>]_vars

\* the lookup has just raised and the request was redirected although a
\* cookie with a valid session exists
C19_Witness ==
    /\ last.op = "dispatch" /\ last.raised /\ last.status = 302
    /\ \E token \in CookieInputs : ValidOwners(token) # {}

-----------------------------------------------------------------------------
(* C20 *)

\* C20 as stated: reset_password checks the token first: with a token that is
\* not consumable it answers InvalidOrExpired whatever the new password is.
C20_Original ==
    [][\A token \in ResetTokenInputs :
          Consumable(token) = {} =>
             \A p \in Procs, password \in Passwords :
                ResetCall(p, token, password) =>
                   /\ last' = InvalidOrExpired
                   /\ UNCHANGED <<users, sessions, reset_tokens, proc>>]_vars

\* C20, amended: reset_password checks the password first: a new password
\* that violates the policy is answered with a validation error whatever the
\* token is, and InvalidOrExpired is answered only when the password satisfies
\* the policy and the token is not consumable; both leave the store untouched.
C20_PasswordCheckedFirst ==
    [][\A p \in Procs, token \in ResetTokenInputs, password \in Passwords :
          ResetCall(p, token, password) =>
             /\ FailsPolicy(password) =>
                   /\ last'.op = "reset_password" /\ last'.status = 422
                   /\ last'.errors # {}
                   /\ UNCHANGED <<users, sessions, reset_tokens, proc>>
             /\ (~FailsPolicy(password) /\ Consumable(token) = {}) =>
                   /\ last' = InvalidOrExpired
                   /\ UNCHANGED <<users, sessions, reset_tokens, proc>>
             /\ last' = InvalidOrExpired => ~FailsPolicy(password)]_vars

\* reset_password has just answered with a validation error although no
\* token in the store was consumable: one was used, or expired
C20_Witness ==
    /\ last.op = "reset_password" /\ last.status = 422
    /\ reset_tokens # {}
    /\ \A token \in ResetTokenInputs : Consumable(token) = {}

-----------------------------------------------------------------------------
(* C21 *)

\* the login of worker p verified a password that the committed digest of
\* the account no longer matches: a reset_password committed in between
StaleLogin(p) ==
    /\ proc[p].pc = "login_commit"
    /\ \A u \in UsersById(proc[p].user_id) :
          ~verify_password(proc[p].password, u.hashed_password)

\* C21: a login that verified the password an account had before a
\* reset_password committed stores no session: once the reset has committed,
\* no session row is added for a login authenticated with the old password.
C21_NoSessionFromOldPassword ==
    [][\A p \in Procs :
          StaleLogin(p) =>
             \A s \in sessions' : s.session_token = proc[p].token => s \in sessions]_vars

-----------------------------------------------------------------------------
(* C22 *)

\* C22: concurrent register calls with the same normalized email leave one
\* account row with that email, and every call that did not create the row
\* answers Conflict, never an internal store fault.
C22_ConcurrentRegisterConflicts ==
    /\ [](\A u1, u2 \in users : lower(u1.email) = lower(u2.email) => u1 = u2)
    /\ [][\A p \in Procs :
            (proc[p].pc = "register_commit" /\ RegisterCommit(p) /\ users' = users)
               => last' = Conflict]_vars

-----------------------------------------------------------------------------
(* C23 *)

\* the files of the login, registration, forgot-password and reset-password
\* pages, and the favicon
UnauthenticatedPages ==
    {LoginHtml,
     <<"/","r","e","g","i","s","t","e","r",".","h","t","m","l">>,
     <<"/","f","o","r","g","o","t","-","p","a","s","s","w","o","r","d",".","h","t","m","l">>,
     <<"/","r","e","s","e","t","-","p","a","s","s","w","o","r","d",".","h","t","m","l">>,
     FaviconPath}

\* C23: the catch-all static handler serves a file to a request without a
\* resolved account only for the login, registration, forgot-password and
\* reset-password pages and the favicon; for every other path the handler runs
\* only after the gate resolved the session cookie to an active account.
\* Stated on the requests that the handler answers with a file.
C23_StaticNeedsAccount ==
    [][(last'.op = "serve_static" /\ last'.status = 200) =>
          \A path \in StaticPaths, session_token \in CookieInputs,
             raises \in BOOLEAN, exists \in BOOLEAN :
             GetStatic("w1", path, session_token, raises, exists) =>
                \/ path \in UnauthenticatedPages
                \/ \E u \in get_current_user_from_cookie(session_token) :
                      last'.user = u.id]_vars

=============================================================================
